---- MODULE Spec2Model ----
(***************************************************************************)
(* sycl-aspect-filter: a model of                                          *)
(*   llvm/tools/sycl-aspect-filter/sycl-aspect-filter.cpp                  *)
(*                                                                         *)
(* Text is modelled as a sequence of tokens: a token is either a           *)
(* punctuation character ("[", "]", "|", "/", ".") or an indivisible run   *)
(* of other characters ("Code", "Properties", "aspects", ...).  A file is a  *)
(* sequence of lines, a line a sequence of tokens, <<>> the blank line.    *)
(***************************************************************************)
EXTENDS Integers, Sequences, FiniteSets, TLC

(***************************************************************************)
(* Bounds of the model.                                                    *)
(***************************************************************************)
MaxCols == 2
MaxRows == 2
MaxLines == 2

(***************************************************************************)
(* Generic sequence helpers.                                               *)
(***************************************************************************)
SeqsUpTo(S, n) == UNION { [1..k -> S] : k \in 0..n }

Min(a, b) == IF a < b THEN a ELSE b

Contains(s, t) == \E k \in 1..Len(s) : s[k] = t

IsUnique(s) == \A a, b \in 1..Len(s) : s[a] = s[b] => a = b

\* StringRef::substr(Start, N): both arguments are clamped to the string.
substr(s, Start, N) ==
  LET st == Min(Start, Len(s))
      n  == Min(N, Len(s) - st)
  IN  SubSeq(s, st + 1, st + n)

\* StringRef::substr(Start) with the default N = npos.
substrFrom(s, Start) == substr(s, Start, Len(s))

\* size() - 2 on size_t: wraps to a huge value below 2, which substr clamps.
SizeMinus2(s) == IF Len(s) >= 2 THEN Len(s) - 2 ELSE Len(s)

\* Index of the first / last occurrence of token t in s, 0 for npos.
FindFirst(s, t) ==
  IF Contains(s, t) THEN CHOOSE k \in 1..Len(s) : s[k] = t /\ \A j \in 1..(k-1) : s[j] # t
  ELSE 0

FindLast(s, t) ==
  IF Contains(s, t) THEN CHOOSE k \in 1..Len(s) : s[k] = t /\ \A j \in (k+1)..Len(s) : s[j] # t
  ELSE 0

\* StringRef::split(Out, Separator) with KeepEmpty = true.
RECURSIVE split(_, _)
split(s, sep) ==
  LET k == FindFirst(s, sep)
  IN  IF k = 0 THEN << s >>
      ELSE << SubSeq(s, 1, k - 1) >> \o split(SubSeq(s, k + 1, Len(s)), sep)

RECURSIVE Join(_, _)
Join(parts, sep) ==
  IF Len(parts) = 0 THEN << >>
  ELSE IF Len(parts) = 1 THEN parts[1]
  ELSE parts[1] \o << sep >> \o Join(Tail(parts), sep)

(***************************************************************************)
(* llvm::sys::path                                                         *)
(***************************************************************************)
\* sys::path::filename for a path that does not end in a separator.
filename(path) == SubSeq(path, FindLast(path, "/") + 1, Len(path))

\* The part of the path in front of the filename (parent and separator).
DirPart(path) == SubSeq(path, 1, FindLast(path, "/"))

IsDotOrDotDot(fname) == fname = << "." >> \/ fname = << ".", "." >>

stem(path) ==
  LET fname == filename(path)
      pos   == FindLast(fname, ".")
  IN  IF pos = 0 \/ IsDotOrDotDot(fname) THEN fname
      ELSE SubSeq(fname, 1, pos - 1)

extension(path) ==
  LET fname == filename(path)
      pos   == FindLast(fname, ".")
  IN  IF pos = 0 \/ IsDotOrDotDot(fname) THEN << >>
      ELSE SubSeq(fname, pos, Len(fname))

(***************************************************************************)
(* llvm::util::SimpleTable                                                 *)
(***************************************************************************)
EmptyTable == [ok |-> FALSE, cols |-> << >>, rows |-> << >>]

\* SimpleTable::read: a bracketed title line, then one row per line.
SimpleTable_read(lines) ==
  IF Len(lines) = 0 THEN EmptyTable
  ELSE
    LET first == lines[1]
        wellBracketed == Len(first) >= 2 /\ first[1] = "[" /\ first[Len(first)] = "]"
        names == split(substr(first, 1, SizeMinus2(first)), "|")
        rows  == [k \in 1..(Len(lines) - 1) |-> split(lines[k + 1], "|")]
    IN  IF /\ wellBracketed
           /\ \A c \in 1..Len(names) : names[c] # << >>
           /\ IsUnique(names)
           /\ \A r \in 1..Len(rows) : Len(rows[r]) = Len(names)
        THEN [ok |-> TRUE, cols |-> names, rows |-> rows]
        ELSE EmptyTable

\* SimpleTable::create(ColumnNames): a table with these columns and no rows.
SimpleTable_create(ColumnNames) ==
  IF IsUnique(ColumnNames)
  THEN [ok |-> TRUE, cols |-> ColumnNames, rows |-> << >>]
  ELSE EmptyTable

\* SimpleTable::write(OS, WriteTitles).
SimpleTable_write(T, WriteTitles) ==
  (IF WriteTitles THEN << << "[" >> \o Join(T.cols, "|") \o << "]" >> >> ELSE << >>)
  \o [r \in 1..Len(T.rows) |-> Join(T.rows[r], "|")]

\* SimpleTable::getColumnId: 0-based index of the column, -1 if absent.
getColumnId(T, name) ==
  IF Contains(T.cols, name) THEN FindFirst(T.cols, name) - 1 ELSE -1

getNumRows(T) == Len(T.rows)

\* Table[i].getCell(name), i 0-based as in the source.
getCell(T, i, name) == T.rows[i + 1][getColumnId(T, name) + 1]

(***************************************************************************)
(* llvm::line_iterator (SkipBlanks = true, no comment marker).  A position *)
(* is the index of the current line; Len(buf) + 1 is the end iterator.     *)
(***************************************************************************)
RECURSIVE NextNonBlank(_, _)
NextNonBlank(buf, k) ==
  IF k > Len(buf) THEN Len(buf) + 1
  ELSE IF buf[k] # << >> THEN k
  ELSE NextNonBlank(buf, k + 1)

line_iterator(buf) == NextNonBlank(buf, 1)

is_at_eof(buf, it) == it > Len(buf)

\* operator* on an iterator the build lets through: the end iterator holds
\* an empty StringRef.
Deref(buf, it) == IF is_at_eof(buf, it) THEN << >> ELSE buf[it]

\* operator++ on an iterator that is not the end iterator.
advance(buf, it) == NextNonBlank(buf, it + 1)

starts_with(line, key) == Len(line) >= 1 /\ line[1] = key

(***************************************************************************)
(* Command line, file system and property files the model explores.        *)
(***************************************************************************)
SectionHeader == "[SYCL/device requirements]"

PropertiesCol == << "Properties" >>

Filtered == "_filtered"

InputNames ==
  { << >>,
    << "t", ".", "x" >>,
    << "d", "/", "t", ".", "x" >> }

OutputNames == { << >>, << "o", ".", "x" >> }

Targets == { "", "gpu", "cpu" }

\* The targets the device configuration file describes.
ConfigTargets == { "gpu" }

ConfigNames == { << >>, << "cfg" >> }

ColNames == { "Code", "Properties", "Symbols" }

\* The modules a row can stand for; the row of module m names the files
\* m.bc (Code), m.prop (Properties) and m.sym (Symbols).
Modules == { "a", "b" }

Suffix(col) ==
  IF col = "Properties" THEN ".prop" ELSE IF col = "Symbols" THEN ".sym" ELSE ".bc"

Wrap(names) == [k \in 1..Len(names) |-> << names[k] >>]

TitleLine(cols) == << "[" >> \o Join(Wrap(cols), "|") \o << "]" >>

RowLine(cols, m) == Join([c \in 1..Len(cols) |-> << m, Suffix(cols[c]) >>], "|")

WellFormedFiles ==
  { << TitleLine(cols) >> \o [r \in 1..Len(ms) |-> RowLine(cols, ms[r])] :
      cols \in { c \in SeqsUpTo(ColNames, MaxCols) : Len(c) >= 1 /\ IsUnique(c) },
      ms \in SeqsUpTo(Modules, MaxRows) }

\* An empty file, a title line without brackets, a repeated column, an
\* empty column name, a row with too few cells.
MalformedFiles ==
  { << >>,
    << << "Code", "|", "Properties" >> >>,
    << << "[", "Code", "|", "Code", "]" >> >>,
    << << "[", "]" >> >>,
    << << "[", "Code", "|", "Properties", "]" >>, << "a", ".bc" >> >> }

TableFiles == WellFormedFiles \cup MalformedFiles

Readable(f) == [exists |-> TRUE, readable |-> TRUE, lines |-> f]

InputFileStates ==
  { [exists |-> FALSE, readable |-> FALSE, lines |-> << >>],
    [exists |-> TRUE,  readable |-> FALSE, lines |-> << >>] }
  \cup { Readable(f) : f \in TableFiles }

\* The input files the runs with an arbitrary command line are given.
FewInputFileStates ==
  { [exists |-> FALSE, readable |-> FALSE, lines |-> << >>],
    [exists |-> TRUE,  readable |-> FALSE, lines |-> << >>],
    Readable(<< TitleLine(<< "Code" >>), RowLine(<< "Code" >>, "a") >>),
    Readable(<< TitleLine(<< "Code", "Properties" >>),
                RowLine(<< "Code", "Properties" >>, "a") >>) }

PropLines ==
  { << >>,
    << SectionHeader >>,
    << "#", SectionHeader >>,
    << "[Other]" >>,
    << "aspects" >>,
    << "aspects", "|", "b3", "b0", "b0", "b0" >>,
    << "aspects", "|", "b9", "b0" >>,
    << "reqd_sub_group_size", "|", "16" >>,
    << "fixed_target", "|", "gpu" >> }

PropFileStates ==
  { [readable |-> FALSE, lines |-> << >>] }
  \cup { [readable |-> TRUE, lines |-> f] : f \in SeqsUpTo(PropLines, MaxLines) }

NoOutput == [created |-> FALSE, lines |-> << >>]

(***************************************************************************)
(* State.                                                                  *)
(***************************************************************************)
VARIABLES
  InputFilename,     \* cl::opt InputFilename
  Output,            \* cl::opt Output (-o)
  Target,            \* cl::opt Target (--target)
  DeviceConfigFile,  \* cl::opt DeviceConfigFile
  inputFile,         \* the file InputFilename names, as the file system has it
  configExists,      \* sys::fs::exists(DeviceConfigFile)
  pc,                \* position of the run
  diag,              \* the message error() printed, "" if none
  Table,             \* the table main read
  OutputFileName,    \* filterTable's local
  i,                 \* filterTable's row counter (0-based)
  Properties,        \* the buffer of the property file of row i
  LI,                \* the line iterator over Properties
  reads,             \* history: one record per property file read, in row order
  outFile,           \* the output file as this run left it
  printed,           \* std::cout received a value
  readPastEnd        \* a payload was read beyond its last byte

vars == << InputFilename, Output, Target, DeviceConfigFile, inputFile,
           configExists, pc, diag, Table, OutputFileName, i, Properties, LI,
           reads, outFile, printed, readPastEnd >>

args == << InputFilename, Output, Target, DeviceConfigFile, inputFile, configExists >>

locals == << Table, OutputFileName, i, Properties, LI, reads, outFile, printed, readPastEnd >>

\* Every command line with a few input files, and one valid command line
\* with every input file.
Init ==
  /\ \/ /\ InputFilename \in InputNames
        /\ Output \in OutputNames
        /\ Target \in Targets
        /\ DeviceConfigFile \in ConfigNames
        /\ configExists \in BOOLEAN
        /\ inputFile \in FewInputFileStates
     \/ /\ InputFilename = << "d", "/", "t", ".", "x" >>
        /\ Output = << >>
        /\ Target = "gpu"
        /\ DeviceConfigFile = << "cfg" >>
        /\ configExists = TRUE
        /\ inputFile \in InputFileStates
  /\ pc = "main"
  /\ diag = ""
  /\ Table = EmptyTable
  /\ OutputFileName = << >>
  /\ i = 0
  /\ Properties = << >>
  /\ LI = 1
  /\ reads = << >>
  /\ outFile = NoOutput
  /\ printed = FALSE
  /\ readPastEnd = FALSE

(***************************************************************************)
(* error(): print the message, exit(1).                                    *)
(***************************************************************************)
error(Message) ==
  /\ pc' = "fatal"
  /\ diag' = Message

(***************************************************************************)
(* main                                                                    *)
(***************************************************************************)
Main ==
  /\ pc = "main"
  /\ IF InputFilename = << >> THEN
       error("Input file not provided.") /\ UNCHANGED locals
     ELSE IF ~inputFile.exists THEN
       error("Input file not found.") /\ UNCHANGED locals
     ELSE IF Target = "" THEN
       error("Target not provided.") /\ UNCHANGED locals
     ELSE IF DeviceConfigFile = << >> THEN
       error("Path to the device configuration file not provided.") /\ UNCHANGED locals
     ELSE IF ~configExists THEN
       error("Device configuration file not found.") /\ UNCHANGED locals
     ELSE IF ~inputFile.readable THEN
       error("Could not open input file") /\ UNCHANGED locals
     ELSE IF ~SimpleTable_read(inputFile.lines).ok THEN
       error("Can't read the input table") /\ UNCHANGED locals
     ELSE
       /\ Table' = SimpleTable_read(inputFile.lines)
       /\ pc' = "filterTable"
       /\ UNCHANGED << diag, OutputFileName, i, Properties, LI, reads, outFile,
                       printed, readPastEnd >>
  /\ UNCHANGED args

(***************************************************************************)
(* filterTable                                                             *)
(***************************************************************************)
\* sizeof(uint32_t), the width of one element of Array.
IntWidth == 4

\* The default output name and the -o override.
DefaultOutputName(In, Out) ==
  IF Out = << >> THEN stem(In) \o << Filtered >> \o extension(In) ELSE Out

\* raw_fd_ostream OS{OutputFileName, EC, OF_None}: the file system decides.
\* On success the file exists and holds what is written to OS.
OpenAndWrite(lines, failure) ==
  \E opened \in BOOLEAN :
    IF opened
    THEN /\ outFile' = [created |-> TRUE, lines |-> lines]
         /\ pc' = "done"
         /\ diag' = diag
    ELSE /\ outFile' = outFile
         /\ error(failure)

\* A copy that keeps the columns and loses the rows.
CopyOfInput_NoRows(T) == SimpleTable_write(SimpleTable_create(T.cols), TRUE)

\* What the branch without a Properties column writes.
CopyOfInput(T) == SimpleTable_write(T, TRUE)

FilterTable ==
  /\ pc = "filterTable"
  /\ OutputFileName' = DefaultOutputName(InputFilename, Output)
  /\ IF getColumnId(Table, PropertiesCol) = -1
     THEN /\ OpenAndWrite(CopyOfInput(Table), "Can't open the output file")
          /\ i' = i
     ELSE /\ pc' = "rows"
          /\ i' = 0
          /\ UNCHANGED << diag, outFile >>
  /\ UNCHANGED << Table, Properties, LI, reads, printed, readPastEnd >>
  /\ UNCHANGED args

(***************************************************************************)
(* The requirement a property file declares and its evaluation against a   *)
(* target, as the design states them (PropertyFileParser, Requirement-      *)
(* Evaluator, DeviceCapabilityModel).  The program computes none of this;   *)
(* it is recorded per row as history so that properties can refer to it.    *)
(***************************************************************************)
IsRecognizedKey(line) ==
  \/ starts_with(line, "aspects")
  \/ starts_with(line, "reqd_sub_group_size")
  \/ starts_with(line, "fixed_target")

RECURSIVE TakeEntries(_, _)
TakeEntries(buf, k) ==
  IF k > Len(buf) \/ ~IsRecognizedKey(buf[k]) THEN << >>
  ELSE << buf[k] >> \o TakeEntries(buf, NextNonBlank(buf, k + 1))

\* The entries of the device-requirements section, << >> without one.
DeclaredClauses(buf) ==
  IF Contains(buf, << SectionHeader >>)
  THEN TakeEntries(buf, NextNonBlank(buf, FindFirst(buf, << SectionHeader >>) + 1))
  ELSE << >>

ByteValue(b) == IF b = "b3" THEN 3 ELSE IF b = "b9" THEN 9 ELSE 0

\* One little-endian integer of IntWidth bytes starting at byte k.
RECURSIVE DecodeLE(_, _, _)
DecodeLE(payload, k, n) ==
  IF n = 0 THEN 0 ELSE ByteValue(payload[k]) + 256 * DecodeLE(payload, k + 1, n - 1)

PayloadOf(line) == substrFrom(line, 2)

WellFormedAspects(payload) == Len(payload) % IntWidth = 0

AspectsOf(payload) ==
  { DecodeLE(payload, IntWidth * (e - 1) + 1, IntWidth) : e \in 1..(Len(payload) \div IntWidth) }

supportsAspect(target, id) == target = "gpu" /\ id = 3

supportsSubGroupSize(target, n) == target = "gpu" /\ n = "16"

matchesFixedTarget(target, id) == target = id

ClauseSupported(line, target) ==
  LET payload == PayloadOf(line)
  IN  IF starts_with(line, "aspects")
      THEN WellFormedAspects(payload)
           /\ \A id \in AspectsOf(payload) : supportsAspect(target, id)
      ELSE IF starts_with(line, "reqd_sub_group_size")
      THEN Len(payload) = 1 /\ supportsSubGroupSize(target, payload[1])
      ELSE Len(payload) = 1 /\ matchesFixedTarget(target, payload[1])

evaluate(clauses, target) ==
  \A c \in 1..Len(clauses) : ClauseSupported(clauses[c], target)

\* Properties.find("[SYCL/device requirements]") != npos
HasSectionText(buf) == \E k \in 1..Len(buf) : Contains(buf[k], SectionHeader)

\* A read whose error code is never looked at.
PropReadFailed_Ignored(pf) == FALSE

\* FileOrErr.getError() of the property file read.
PropReadFailed(pf) == ~pf.readable

\* One iteration of the loop over the rows, up to the line iterator's
\* construction.  The buffer and the iterator are locals of the iteration.
RowRead ==
  /\ pc = "rows"
  /\ i < getNumRows(Table)
  /\ \E pf \in PropFileStates :
       /\ reads' = Append(reads, [readable |-> pf.readable,
                                  section  |-> HasSectionText(pf.lines),
                                  clauses  |-> DeclaredClauses(pf.lines)])
       /\ IF PropReadFailed(pf) THEN
            /\ error("Can't read the property file")
            /\ UNCHANGED << i, Properties, LI >>
          ELSE IF ~HasSectionText(pf.lines) THEN
            /\ i' = i + 1
            /\ UNCHANGED << pc, diag, Properties, LI >>
          ELSE
            /\ Properties' = pf.lines
            /\ LI' = line_iterator(pf.lines)
            /\ pc' = "find"
            /\ UNCHANGED << i, diag >>
  /\ UNCHANGED << Table, OutputFileName, outFile, printed, readPastEnd >>
  /\ UNCHANGED args

\* while (*LI != "[SYCL/device requirements]") LI++;  LI++;
\* At the end iterator the dereference and the increment are undefined:
\* a build with assertions aborts, one without dereferences a null pointer.
FindHeader ==
  /\ pc = "find"
  /\ IF is_at_eof(Properties, LI) THEN
       /\ pc' \in { "abort", "crash" }
       /\ LI' = LI
     ELSE IF Deref(Properties, LI) # << SectionHeader >> THEN
       /\ LI' = advance(Properties, LI)
       /\ pc' = pc
     ELSE
       /\ LI' = advance(Properties, LI)
       /\ pc' = "scan"
  /\ UNCHANGED << diag, Table, OutputFileName, i, Properties, reads, outFile,
                  printed, readPastEnd >>
  /\ UNCHANGED args

\* The condition of the loop over the entries of the section.  Dereferencing
\* the end iterator aborts in a build with assertions and yields the empty
\* string in one without.
ScanTest ==
  /\ pc = "scan"
  /\ \/ /\ is_at_eof(Properties, LI)
        /\ pc' = "abort"
        /\ UNCHANGED << i, Properties, LI >>
     \/ /\ IsRecognizedKey(Deref(Properties, LI))
        /\ pc' = "body"
        /\ UNCHANGED << i, Properties, LI >>
     \/ /\ ~IsRecognizedKey(Deref(Properties, LI))
        /\ pc' = "rows"
        /\ i' = i + 1
        /\ Properties' = << >>
        /\ LI' = 1
  /\ UNCHANGED << diag, Table, OutputFileName, reads, outFile, printed, readPastEnd >>
  /\ UNCHANGED args

\* Where the body of the entry loop leaves the iterator.
EntryConsumed(buf, it) == it

\* The body of the entry loop.
ScanBody ==
  /\ pc = "body"
  /\ LET line    == Deref(Properties, LI)
         size    == Len(<< "aspects", "|" >>)
         payload == substrFrom(line, size)
     IN  IF line = << "aspects" >>
         THEN /\ printed' = TRUE
              /\ readPastEnd' = (readPastEnd \/ Len(payload) < IntWidth)
         ELSE UNCHANGED << printed, readPastEnd >>
  /\ LI' = EntryConsumed(Properties, LI)
  /\ pc' = "scan"
  /\ UNCHANGED << diag, Table, OutputFileName, i, Properties, reads, outFile >>
  /\ UNCHANGED args

\* The title line stripped of its opening bracket only.
ColumnNamesOf_OffByOne(FirstLine) ==
  split(substr(FirstLine, 1, Len(FirstLine) - 1), "|")

\* The column names filterTable takes from the first line of the input file.
ColumnNamesOf(FirstLine) ==
  split(substr(FirstLine, 1, SizeMinus2(FirstLine)), "|")

\* After the loop over the rows: a new table with the input's columns is
\* created and written; no row is ever added to it.
WriteResult ==
  /\ pc = "rows"
  /\ i >= getNumRows(Table)
  /\ LET FirstLine == Deref(inputFile.lines, line_iterator(inputFile.lines))
         NewTable  == SimpleTable_create(ColumnNamesOf(FirstLine))
     IN  IF ~NewTable.ok
         THEN error("Failed to create a new table") /\ outFile' = outFile
         ELSE OpenAndWrite(SimpleTable_write(NewTable, TRUE),
                           "Can't open the output file")
  /\ UNCHANGED << Table, OutputFileName, i, Properties, LI, reads, printed, readPastEnd >>
  /\ UNCHANGED args

Next ==
  \/ Main
  \/ FilterTable
  \/ RowRead
  \/ FindHeader
  \/ ScanTest
  \/ ScanBody
  \/ WriteResult

Spec == Init /\ [][Next]_vars

(***************************************************************************)
(* Properties.                                                             *)
(***************************************************************************)
HasPropertiesColumn == getColumnId(Table, PropertiesCol) # -1

\* The table a reader of the output file gets.
OutputTable == SimpleTable_read(outFile.lines)

\* Row r (1-based) of the input table is a row of the output table.
RowInOutput(r) ==
  \E k \in 1..Len(OutputTable.rows) : OutputTable.rows[k] = Table.rows[r]

Finished == pc = "done" /\ outFile.created

\* C1: for a table with a Properties column and a target the capability
\* description knows, a row is in the output table iff every clause its
\* property file declares in the device-requirements section is supported
\* by the target.
C1_RowKeptIffAllClausesSupported ==
  (Finished /\ HasPropertiesColumn /\ Target \in ConfigTargets) =>
    \A r \in 1..Len(reads) : RowInOutput(r) <=> evaluate(reads[r].clauses, Target)

\* C2: for a table with a Properties column, every row whose property file
\* does not contain the text [SYCL/device requirements] is in the output
\* table, unmodified.
C2_SectionlessRowKept ==
  (Finished /\ HasPropertiesColumn) =>
    \A r \in 1..Len(reads) : ~reads[r].section => RowInOutput(r)

\* C3: without a Properties column the table written to the output is the
\* input table (same columns, same rows, same order) and no property file
\* is read.
C3_PassThroughUnchanged ==
  (Finished /\ ~HasPropertiesColumn) =>
    /\ OutputTable = Table
    /\ reads = << >>

C3_Witness ==
  /\ Finished
  /\ ~HasPropertiesColumn
  /\ getNumRows(Table) = 2
  /\ Table.rows[1] # Table.rows[2]

\* C4: a --target value the capability description does not know ends the
\* run with exit code 1 and no output file.
C4_UnknownTargetIsFatal ==
  Target \notin ConfigTargets => (pc # "done" /\ ~outFile.created)

\* Every check the program makes of its inputs has succeeded.
ValidationSucceeded ==
  /\ InputFilename # << >>
  /\ inputFile.exists
  /\ Target # ""
  /\ DeviceConfigFile # << >>
  /\ configExists
  /\ inputFile.readable
  /\ SimpleTable_read(inputFile.lines).ok
  /\ HasPropertiesColumn =>
       /\ Len(reads) = getNumRows(Table)
       /\ \A r \in 1..Len(reads) : reads[r].readable

\* C5: the output file is created only after the input file, the target,
\* the device configuration file, the table and every row's property file
\* have been validated; a run that ends in a fatal error (exit code 1) has
\* not created the output file.
C5_OutputOnlyAfterValidation ==
  /\ outFile.created => ValidationSucceeded
  /\ pc = "fatal" => ~outFile.created

C5_Witness ==
  /\ Finished
  /\ HasPropertiesColumn
  /\ getNumRows(Table) = 2
  /\ Len(reads) = 2

\* C6: the column list of the output table is the column list of the input
\* table, with or without a Properties column.
C6_ColumnsPreserved ==
  outFile.created => OutputTable.ok /\ OutputTable.cols = Table.cols

C6_Witness ==
  /\ Finished
  /\ HasPropertiesColumn
  /\ Len(Table.cols) = 2
  /\ getNumRows(Table) >= 1

\* C7: without -o the output path is the input path with _filtered
\* appended to the stem of its filename: directory part, stem, _filtered,
\* extension.
C7_DefaultOutputKeepsDirectory ==
  (Table.ok /\ pc # "filterTable" /\ Output = << >>) =>
    OutputFileName = DirPart(InputFilename) \o stem(InputFilename)
                       \o << Filtered >> \o extension(InputFilename)

\* The entry loop is about to process an aspects entry whose payload is not
\* a whole number of integers.
AtMalformedAspects ==
  /\ pc = "body"
  /\ starts_with(Deref(Properties, LI), "aspects")
  /\ ~WellFormedAspects(PayloadOf(Deref(Properties, LI)))

\* C8: an aspects entry with a truncated payload ends the run with a
\* decode error (exit code 1); no payload is read past its end and the
\* entry is not skipped.
C8_MalformedAspectsIsFatal ==
  [][(AtMalformedAspects => pc' = "fatal") /\ ~readPastEnd']_vars

\* C9: the scan of the section consumes each recognized entry once and
\* advances to the next line each time, so it terminates.
C9_ScanAdvances ==
  [][pc = "body" => LI' = advance(Properties, LI)]_vars

\* C10: whenever the header text occurs in the buffer, the line iterator
\* is inside the file each time the header search or the entry scan
\* dereferences or advances it.
C10_IteratorInsideFile ==
  pc \in { "find", "scan", "body" } => ~is_at_eof(Properties, LI)

====
